---- MODULE Spec2Model ----
(***************************************************************************)
(* A model of the hot-folder image viewer (viewer.py): the Viewer object's *)
(* fields, the periodic updater and the key handlers.  Every handler is    *)
(* one action.  A Python exception raised inside a handler is caught by    *)
(* the Tk main loop: the fields keep whatever the handler had assigned up  *)
(* to the raise and the exception's name is recorded in `fault'.           *)
(***************************************************************************)
EXTENDS Integers, Sequences, FiniteSets, TLC

(***************************************************************************)
(* Bounds of the model.                                                    *)
(***************************************************************************)
NumRoot == 3      \* image files directly in the hot folder: 1..NumRoot
NumSub == 1       \* image files in a sub-folder: NumRoot+1..NumRoot+NumSub
MaxDigit == 1     \* rating and filter digits used: '0'..MaxDigit
MaxGone == 1      \* files deleted between the listing and the isfile test
MaxTicks == 40    \* on_minus is not taken beyond this interval
MaxPending == 2   \* on_update/on_info are not taken with more timers queued
MaxCount == 50    \* the largest count in a bin of a histogram
MaxLow == 1       \* the largest count in the sparse bins of a histogram

(***************************************************************************)
(* The files.  A path is a number; the order of the numbers is the order   *)
(* of the path strings.  The last file of the hot folder has an upper-case *)
(* extension ('X.JPG'); a file in the sub-folder has the name of a file of *)
(* the hot folder.                                                         *)
(***************************************************************************)
Files == 1..(NumRoot + NumSub)
InRoot(p) == p <= NumRoot
UpperExt(p) == p = NumRoot
Names == 1..NumRoot
Digits == 0..MaxDigit
Notes == {"", "n"}

\* Python's None where an index, a filter or a dialog reply is expected; no
\* index, goto target or digit the code computes equals it.
None == -2

NoFault == "none"
Faults == {NoFault, "ZeroDivisionError", "TypeError", "IndexError", "UnicodeDecodeError"}

VARIABLES
    images,            \* self.images
    image_index,       \* self.image_index
    skiplist,          \* self.skiplist
    rescan,            \* self.rescan
    slideshow,         \* self.slideshow
    slideshow_ticks,   \* self.slideshow_ticks
    slideshow_next,    \* self.slideshow_next
    show_histogram,    \* self.show_histogram
    centre_image,      \* self.centre_image
    sort_on_load,      \* self.sort_on_load
    randomise_on_load, \* self.randomise_on_load
    treewalk,          \* self.treewalk
    update,            \* self.update
    info,              \* self.info
    filter,            \* self.filter
    metadata,          \* self.metadata: basename -> [rating, notes]
    metadata_db,       \* the rows of metadata.csv
    pending,           \* calls of updater queued with master.after
    fault,             \* exception that ended the last handler
    last_op,           \* the last handler run
    failed,            \* entries the last handler moved to the skiplist
    paths,             \* updater's local `paths' in the last handler
    isfile,            \* the paths that were files at the merge of the last updater
    new_images,        \* updater's local `new_images' before the shuffle
    listed,            \* what the directory walk reported to the last handler
    rescanned,         \* the last handler took the rescan branch of updater
    unskipped,         \* the paths the last handler took off the skiplist
    histogram,         \* draw_histogram's local `histogram': level -> count
    clip,              \* draw_histogram's local `clip'
    polygon            \* the heights scale*min(clip, histogram[x]) of `polygon'

viewer == <<images, image_index, skiplist, rescan>>
show == <<slideshow, slideshow_ticks, slideshow_next>>
flags == <<show_histogram, centre_image, update, info, filter>>
config == <<sort_on_load, randomise_on_load, treewalk>>
store == <<metadata, metadata_db>>
locals == <<fault, last_op, failed, paths, isfile, new_images, listed, rescanned, unskipped>>
canvas == <<histogram, clip, polygon>>
vars == <<viewer, show, flags, config, store, pending, locals, canvas>>

(***************************************************************************)
(* Helpers on sequences.                                                   *)
(***************************************************************************)
Range(s) == {s[i] : i \in 1..Len(s)}
InSeq(x, s) == x \in Range(s)
NoDup(s) == \A i, j \in 1..Len(s) : s[i] = s[j] => i = j
\* del s[i] with a 0-based i
DelAt(s, i) == SubSeq(s, 1, i) \o SubSeq(s, i + 2, Len(s))
Sorted(s) == \A i, j \in 1..Len(s) : i < j => s[i] <= s[j]
\* list.sort() on paths
SortPaths(s) == SortSeq(s, LAMBDA a, b : a < b)
\* the sequences that hold every element of the set S once
RECURSIVE Orders(_)
Orders(S) ==
    IF S = {} THEN {<<>>}
    ELSE UNION {{<<x>> \o t : t \in Orders(S \ {x})} : x \in S}
\* the orders random.shuffle can leave a duplicate-free list in
Shuffles(s) == Orders(Range(s))
\* the elements of the set S in ascending order
RECURSIVE Ascending(_)
Ascending(S) ==
    IF S = {} THEN <<>>
    ELSE LET m == CHOOSE x \in S : \A y \in S : x <= y
         IN  <<m>> \o Ascending(S \ {m})
Basename(p) == IF InRoot(p) THEN p ELSE p - NumRoot


(***************************************************************************)
(* The embedded metadata of the files.  Every file carries a camera model, *)
(* an ISO value and a user comment; the comment of the second file of the  *)
(* hot folder has an ASCII header and bytes that are not ASCII.            *)
(***************************************************************************)
ExifTags == {"Model", "ISO", "User Comment"}
BadComment(p) == p = 2
Exif(p) ==
    [tag \in ExifTags |->
        IF tag = "User Comment"
        THEN IF BadComment(p) THEN "bytes" ELSE "ascii"
        ELSE "value"]

\* get_exif_info on the tags exif: the labels with their formatted values,
\* or the exception of data.decode, which nothing in the function catches
get_exif_info(exif) ==
    IF "User Comment" \in DOMAIN exif /\ exif["User Comment"] = "bytes"
    THEN [fault |-> "UnicodeDecodeError", result |-> <<>>]
    ELSE [fault |-> NoFault, result |-> [tag \in DOMAIN exif |-> "text"]]

\* the exception that ends draw_histogram for the image at path p
draw_histogram(p) == get_exif_info(Exif(p)).fault

(***************************************************************************)
(* load_image.  k is the number of consecutive entries, starting with the  *)
(* current one, that PIL fails to open during this call; hist is           *)
(* self.show_histogram.  After a successful open the image is drawn, and   *)
(* with hist the overlay.                                                  *)
(***************************************************************************)
RECURSIVE load_image(_, _, _, _, _, _)
load_image(imgs, idx, skip, k, n, hist) ==
    IF idx = None
    THEN [images |-> imgs, skiplist |-> skip, fault |-> NoFault, failed |-> n]
    ELSE IF idx >= Len(imgs)
    THEN [images |-> imgs, skiplist |-> skip, fault |-> "IndexError", failed |-> n]
    ELSE IF k > 0
    THEN load_image(DelAt(imgs, idx), idx, Append(skip, imgs[idx + 1]), k - 1, n + 1, hist)
    ELSE [images |-> imgs, skiplist |-> skip,
          fault |-> IF hist THEN draw_histogram(imgs[idx + 1]) ELSE NoFault,
          failed |-> n]

\* the rating goto_image compares with the filter
Rating(md, name) == IF name \in DOMAIN md THEN md[name].rating ELSE 0

\* the filter loop always advancing forwards
RECURSIVE FilterLoop_Forward(_, _, _, _, _, _)
FilterLoop_Forward(imgs, md, f, idx, delta, left) ==
    IF left = 0 THEN idx
    ELSE IF Rating(md, Basename(imgs[idx + 1])) >= f THEN idx
    ELSE FilterLoop_Forward(imgs, md, f, (idx + 1) % Len(imgs), delta, left - 1)

\* the filter loop of goto_image: `left' iterations remain
RECURSIVE FilterLoop(_, _, _, _, _, _)
FilterLoop(imgs, md, f, idx, delta, left) ==
    IF left = 0 THEN idx
    ELSE IF Rating(md, Basename(imgs[idx + 1])) >= f THEN idx
    ELSE FilterLoop(imgs, md, f, (idx + delta) % Len(imgs), delta, left - 1)

\* an index clamped to the list instead of wrapped
Wrap_Clamp(index, n) == IF index < 0 THEN 0 ELSE IF index >= n THEN n - 1 ELSE index

\* index % len(self.images), for a non-empty list
Wrap(index, n) == index % n

(***************************************************************************)
(* goto_image(index, delta) on a viewer with the given images, skiplist    *)
(* and current index, the metadata md and self.show_histogram = hist.      *)
(***************************************************************************)
goto_image(imgs, skip, cur, md, index, delta, k, hist) ==
    IF index = None
    THEN [images |-> imgs, skiplist |-> skip, image_index |-> cur,
          fault |-> NoFault, failed |-> 0]
    ELSE IF Len(imgs) = 0
    THEN [images |-> imgs, skiplist |-> skip, image_index |-> cur,
          fault |-> "ZeroDivisionError", failed |-> 0]
    ELSE LET w == Wrap(index, Len(imgs))
             idx == IF filter # None
                    THEN FilterLoop(imgs, md, filter, w, delta, Len(imgs))
                    ELSE w
             l == load_image(imgs, idx, skip, k, 0, hist)
         IN  [images |-> l.images, skiplist |-> l.skiplist, image_index |-> idx,
              fault |-> l.fault, failed |-> l.failed]

\* a key handler that raised before changing anything
Raise(op, exc) ==
    /\ fault' = exc
    /\ last_op' = op
    /\ failed' = 0
    /\ paths' = <<>>
    /\ isfile' = {}
    /\ new_images' = <<>>
    /\ listed' = <<>>
    /\ rescanned' = FALSE
    /\ unskipped' = IF op = "on_clearskip" THEN Range(skiplist) ELSE {}

\* a key handler that returned normally
Return(op) == Raise(op, NoFault)

\* the outcome g of a goto_image or load_image call becomes the state
Navigate(op, g) ==
    /\ images' = g.images
    /\ skiplist' = g.skiplist
    /\ image_index' = g.image_index
    /\ fault' = g.fault
    /\ failed' = g.failed
    /\ last_op' = op
    /\ paths' = <<>>
    /\ isfile' = {}
    /\ new_images' = <<>>
    /\ listed' = <<>>
    /\ rescanned' = FALSE
    /\ unskipped' = {}

\* the numbers of consecutive failures a load on a list of n entries can meet
Fails(n) == 0..n

on_home ==
    /\ \E k \in Fails(Len(images)) :
       \E g \in {goto_image(images, skiplist, image_index, metadata, 0, 1, k, show_histogram)} :
          Navigate("on_home", g)
    /\ UNCHANGED <<rescan, show, flags, config, canvas, store, pending>>

on_end ==
    /\ \E k \in Fails(Len(images)) :
       \E g \in {goto_image(images, skiplist, image_index, metadata, Len(images) - 1, 1, k, show_histogram)} :
          Navigate("on_end", g)
    /\ UNCHANGED <<rescan, show, flags, config, canvas, store, pending>>

on_left ==
    /\ IF image_index = None
       THEN Raise("on_left", "TypeError") /\ UNCHANGED <<images, skiplist, image_index>>
       ELSE \E k \in Fails(Len(images)) :
            \E g \in {goto_image(images, skiplist, image_index, metadata, image_index - 1, -1, k, show_histogram)} :
               Navigate("on_left", g)
    /\ UNCHANGED <<rescan, show, flags, config, canvas, store, pending>>

on_right ==
    /\ IF image_index = None
       THEN Raise("on_right", "TypeError") /\ UNCHANGED <<images, skiplist, image_index>>
       ELSE \E k \in Fails(Len(images)) :
            \E g \in {goto_image(images, skiplist, image_index, metadata, image_index + 1, 1, k, show_histogram)} :
               Navigate("on_right", g)
    /\ UNCHANGED <<rescan, show, flags, config, canvas, store, pending>>

\* clearing the skiplist and going back to the first image
on_clearskip_Home ==
    /\ skiplist' = <<>>
    /\ image_index' = IF images = <<>> THEN image_index ELSE 0
    /\ Return("on_clearskip")
    /\ UNCHANGED <<images, rescan, show, flags, config, canvas, store, pending>>

on_clearskip ==
    /\ skiplist' = <<>>
    /\ Return("on_clearskip")
    /\ UNCHANGED <<images, image_index, rescan, show, flags, config, canvas, store, pending>>

on_centre ==
    /\ centre_image' = ~centre_image
    /\ \E k \in Fails(Len(images)) :
       \E l \in {load_image(images, image_index, skiplist, k, 0, show_histogram)} :
          Navigate("on_centre", [images |-> l.images, skiplist |-> l.skiplist,
                                 image_index |-> image_index, fault |-> l.fault,
                                 failed |-> l.failed])
    /\ UNCHANGED <<rescan, show, show_histogram, update, info, filter, config, canvas, store, pending>>

\* a toggle that also restarts the countdown
on_space_Restart ==
    /\ slideshow' = ~slideshow
    /\ slideshow_next' = slideshow_ticks
    /\ Return("on_space")
    /\ UNCHANGED <<viewer, slideshow_ticks, flags, config, canvas, store, pending>>

on_space ==
    /\ slideshow' = ~slideshow
    /\ Return("on_space")
    /\ UNCHANGED <<viewer, slideshow_ticks, slideshow_next, flags, config, canvas, store, pending>>

\* the interval halved without the test of ticks >= 2
Halved_NoTest(ticks) == ticks \div 2

\* slideshow_ticks after on_plus
Halved(ticks) == IF ticks >= 2 THEN ticks \div 2 ELSE ticks

\* the interval halved with the countdown left as it was
on_plus_KeepCountdown ==
    /\ slideshow_ticks' = Halved(slideshow_ticks)
    /\ Return("on_plus")
    /\ UNCHANGED <<viewer, slideshow, slideshow_next, flags, config, canvas, store, pending>>

on_plus ==
    /\ slideshow_ticks' = Halved(slideshow_ticks)
    /\ slideshow_next' = 1
    /\ Return("on_plus")
    /\ UNCHANGED <<viewer, slideshow, flags, config, canvas, store, pending>>

on_minus ==
    /\ slideshow_ticks * 2 <= MaxTicks
    /\ slideshow_ticks' = slideshow_ticks * 2
    /\ Return("on_minus")
    /\ UNCHANGED <<viewer, slideshow, slideshow_next, flags, config, canvas, store, pending>>

\* the key at position d of ')!".$%^&*(' sets the filter to the digit d
on_filter ==
    /\ \E d \in Digits : filter' = d
    /\ Return("on_filter")
    /\ UNCHANGED <<viewer, show, show_histogram, centre_image, update, info, config, canvas, store, pending>>


(***************************************************************************)
(* The scan of updater.  `listing' is what the directory walk reports, in  *)
(* its order: os.listdir reports the files of the hot folder and the names *)
(* are compared in lower case; treewalk reports the hot folder before the  *)
(* sub-folder and compares the names as they are.                          *)
(***************************************************************************)
Scan(walk, listing) ==
    IF walk
    THEN SelectSeq(listing, LAMBDA p : InRoot(p) /\ ~UpperExt(p))
         \o SelectSeq(listing, LAMBDA p : ~InRoot(p) /\ ~UpperExt(p))
    ELSE SelectSeq(listing, LAMBDA p : InRoot(p))

\* new_images built without the test of the skiplist
NewImages_NoSkipTest(ps, imgs, skip, present) ==
    SelectSeq(ps, LAMBDA p : ~InSeq(p, imgs) /\ p \in present)

\* new_images built without the test of os.path.isfile
NewImages_NoIsfileTest(ps, imgs, skip, present) ==
    SelectSeq(ps, LAMBDA p : ~InSeq(p, imgs) /\ ~InSeq(p, skip))

\* the list comprehension that builds new_images
NewImages(ps, imgs, skip, present) ==
    SelectSeq(ps, LAMBDA p : ~InSeq(p, imgs) /\ ~InSeq(p, skip) /\ p \in present)

\* only the new batch is sorted
Extend_SortBatchOnly(imgs, batch, sort) ==
    IF sort THEN imgs \o SortPaths(batch) ELSE imgs \o batch

\* self.images after extend and the optional sort
Extend(imgs, batch, sort) ==
    IF sort THEN SortPaths(imgs \o batch) ELSE imgs \o batch

\* the countdown taken as expired one tick late
Expired_Late(next) == next - 1 < 0

\* the countdown reaches 0 when this tick decrements it
Expired(next) == next - 1 = 0

(***************************************************************************)
(* updater after the test of self.update, from the rescan test to the      *)
(* return: imgs0 and idx0 are the images and index after the rescan test,  *)
(* `shuffled' is new_images as random.shuffle left it.  The result has the *)
(* fields the call assigns and again = 1 when master.after was reached.    *)
(***************************************************************************)
updater(imgs0, idx0, new, shuffled, k) ==
    IF new # <<>>
    THEN LET idx1 == Len(imgs0)
             l == load_image(Extend(imgs0, shuffled, sort_on_load), idx1, skiplist, k, 0, show_histogram)
         IN  IF l.fault # NoFault
             THEN [images |-> l.images, skiplist |-> l.skiplist, image_index |-> idx1,
                   slideshow |-> slideshow, slideshow_next |-> slideshow_next,
                   fault |-> l.fault, failed |-> l.failed, again |-> 0]
             ELSE [images |-> l.images, skiplist |-> l.skiplist, image_index |-> idx1,
                   slideshow |-> FALSE, slideshow_next |-> slideshow_ticks,
                   fault |-> NoFault, failed |-> l.failed, again |-> 1]
    ELSE IF slideshow
    THEN IF Expired(slideshow_next)
         THEN IF idx0 = None
              THEN [images |-> imgs0, skiplist |-> skiplist, image_index |-> idx0,
                    slideshow |-> slideshow, slideshow_next |-> slideshow_ticks,
                    fault |-> "TypeError", failed |-> 0, again |-> 0]
              ELSE LET g == goto_image(imgs0, skiplist, idx0, metadata, idx0 + 1, 1, k, show_histogram)
                   IN  [images |-> g.images, skiplist |-> g.skiplist,
                        image_index |-> g.image_index,
                        slideshow |-> slideshow, slideshow_next |-> slideshow_ticks,
                        fault |-> g.fault, failed |-> g.failed,
                        again |-> IF g.fault = NoFault THEN 1 ELSE 0]
         ELSE [images |-> imgs0, skiplist |-> skiplist, image_index |-> idx0,
               slideshow |-> slideshow, slideshow_next |-> slideshow_next - 1,
               fault |-> NoFault, failed |-> 0, again |-> 1]
    ELSE [images |-> imgs0, skiplist |-> skiplist, image_index |-> idx0,
          slideshow |-> slideshow, slideshow_next |-> slideshow_next,
          fault |-> NoFault, failed |-> 0, again |-> 1]

\* the files the scan selects at all
Selected(walk) == {p \in Files : Scan(walk, <<p>>) # <<>>}

\* the paths the comprehension tests with os.path.isfile: `and' stops at the
\* first false operand
Fresh(ps, imgs, skip) == {p \in Range(ps) : ~InSeq(p, imgs) /\ ~InSeq(p, skip)}

\* a sequence back to front
Reverse(s) == [i \in 1..Len(s) |-> s[Len(s) + 1 - i]]

(***************************************************************************)
(* What the directory walk can report.  Its order is arbitrary, and the    *)
(* shuffle that follows makes the order of the batch independent of it, so *)
(* two orders are taken for each set of new files: the path order and its  *)
(* reverse.  The files that are already known, skipped or never selected   *)
(* cannot affect the handler, listed or not and wherever listed: they are  *)
(* all listed, first and in path order.                                    *)
(***************************************************************************)
Listings(walk, imgs, skip) ==
    LET fresh == {p \in Selected(walk) : ~InSeq(p, imgs) /\ ~InSeq(p, skip)}
    IN  UNION {{Ascending(Files \ fresh) \o Ascending(T),
                Ascending(Files \ fresh) \o Reverse(Ascending(T))} : T \in SUBSET fresh}

\* the files that are gone when os.path.isfile looks, among those it is
\* asked about
Gone(tested) == {g \in SUBSET tested : Cardinality(g) <= MaxGone}

\* the rescan block leaves the images as they are
RescanImages_Keep(flag, imgs) == imgs

\* self.images after the rescan block of updater
RescanImages(flag, imgs) == IF flag THEN <<>> ELSE imgs

\* self.image_index after the rescan block of updater
RescanIndex(flag, idx) == IF flag THEN None ELSE idx

(***************************************************************************)
(* A call of updater by handler op, with self.update = upd and `queued'    *)
(* other calls of updater waiting in the Tk timer queue.                   *)
(***************************************************************************)
CallUpdater(op, upd, queued) ==
    IF ~upd
    THEN /\ Return(op)
         /\ pending' = queued
         /\ UNCHANGED <<viewer, show>>
    ELSE LET imgs0 == RescanImages(rescan, images)
             idx0 == RescanIndex(rescan, image_index)
         IN  \E listing \in Listings(treewalk, imgs0, skiplist) :
               \E ps \in {Scan(treewalk, listing)} :
               \E tested \in {Fresh(ps, imgs0, skiplist)} :
               \E gone \in Gone(tested) :
               \E new \in {NewImages(ps, imgs0, skiplist, Range(ps) \ gone)} :
               \E shuffled \in Shuffles(new) :
               \E k \in Fails(IF new # <<>> THEN Len(new)
                              ELSE IF slideshow /\ slideshow_next = 1 THEN Len(imgs0)
                              ELSE 0) :
               \E u \in {updater(imgs0, idx0, new, shuffled, k)} :
                   /\ images' = u.images
                   /\ skiplist' = u.skiplist
                   /\ image_index' = u.image_index
                   /\ rescan' = FALSE
                   /\ slideshow' = u.slideshow
                   /\ slideshow_next' = u.slideshow_next
                   /\ slideshow_ticks' = slideshow_ticks
                   /\ pending' = queued + u.again
                   /\ fault' = u.fault
                   /\ failed' = u.failed
                   /\ last_op' = op
                   /\ paths' = ps
                   /\ isfile' = Range(ps) \ gone
                   /\ new_images' = new
                   /\ listed' = listing
                   /\ rescanned' = rescan
                   /\ unskipped' = {}

\* the Tk timer runs a queued call of updater
tick ==
    /\ pending > 0
    /\ CallUpdater("updater", update, pending - 1)
    /\ UNCHANGED <<flags, config, canvas, store>>

on_update ==
    /\ pending < MaxPending
    /\ update' = ~update
    /\ CallUpdater("on_update", ~update, pending)
    /\ UNCHANGED <<show_histogram, centre_image, info, filter, config, canvas, store>>

on_info ==
    /\ pending < MaxPending
    /\ info' = ~info
    /\ CallUpdater("on_info", update, pending)
    /\ UNCHANGED <<show_histogram, centre_image, update, filter, config, canvas, store>>

\* the rescan flag is set from outside the handlers
set_rescan ==
    /\ ~rescan
    /\ rescan' = TRUE
    /\ Return("set_rescan")
    /\ UNCHANGED <<images, image_index, skiplist, show, flags, config, canvas, store, pending>>


(***************************************************************************)
(* The metadata store and metadata.csv.  A row of the file is              *)
(* <<image, rating, notes>>; no file and a file without rows are both {}.  *)
(***************************************************************************)
load_metadata(rows) ==
    [nm \in {r[1] : r \in rows} |->
        LET r == CHOOSE r \in rows : r[1] = nm
        IN  [rating |-> r[2], notes |-> r[3]]]

\* the file after save_metadata: it is not written for an empty store
save_metadata(md, rows) ==
    IF Cardinality(DOMAIN md) > 0
    THEN {<<nm, md[nm].rating, md[nm].notes>> : nm \in DOMAIN md}
    ELSE rows

\* the record is replaced by a new one
SetRating_Replace(md, nm, d) ==
    (nm :> [rating |-> d, notes |-> ""]) @@ md

\* lines 201-203 of on_rating
SetRating(md, nm, d) ==
    IF nm \in DOMAIN md
    THEN [md EXCEPT ![nm].rating = d]
    ELSE (nm :> [rating |-> d, notes |-> ""]) @@ md

\* lines 236-238 of on_text
SetNotes(md, nm, text) ==
    IF nm \in DOMAIN md
    THEN [md EXCEPT ![nm].notes = text]
    ELSE (nm :> [rating |-> 0, notes |-> text]) @@ md

\* the part of on_rating and on_text after the store is changed to md: the
\* overlay, when shown, is toggled off and on again, which redraws through
\* goto_image; the file is saved when that returns
Redraw(op, md) ==
    IF show_histogram
    THEN \E k \in Fails(Len(images)) :
         \E g \in {goto_image(images, skiplist, image_index, md, image_index, 1, k, TRUE)} :
               /\ Navigate(op, g)
               /\ metadata' = md
               /\ metadata_db' = IF g.fault = NoFault
                                 THEN save_metadata(md, metadata_db)
                                 ELSE metadata_db
    ELSE /\ Return(op)
         /\ metadata' = md
         /\ metadata_db' = save_metadata(md, metadata_db)
         /\ UNCHANGED <<images, skiplist, image_index>>

\* self.images[self.image_index] raises for None and for an index past the end
CurrentFault == IF image_index = None THEN "TypeError"
                ELSE IF image_index >= Len(images) THEN "IndexError"
                ELSE NoFault

\* on_rating for the key info.char = char while an entry is designated
on_rating_char(char) ==
    \E md \in {SetRating(metadata, Basename(images[image_index + 1]), char)} :
        Redraw("on_rating", md)

on_rating ==
    /\ IF CurrentFault # NoFault
       THEN Raise("on_rating", CurrentFault) /\ UNCHANGED <<images, skiplist, image_index, store>>
       ELSE \E d \in Digits : on_rating_char(d)
    /\ UNCHANGED <<rescan, show, flags, config, canvas, pending>>

\* the dialog is answered with a text or cancelled; an empty reply is
\* treated as a cancelled one
\* on_text while an entry is designated, for a dialog that is answered with
\* text or cancelled
on_text_reply(answered, text) ==
    IF answered /\ text # ""
    THEN \E md \in {SetNotes(metadata, Basename(images[image_index + 1]), text)} :
            Redraw("on_text", md)
    ELSE Return("on_text") /\ UNCHANGED <<images, skiplist, image_index, store>>

on_text ==
    /\ IF CurrentFault # NoFault
       THEN Raise("on_text", CurrentFault) /\ UNCHANGED <<images, skiplist, image_index, store>>
       ELSE \E answered \in BOOLEAN, text \in Notes : on_text_reply(answered, text)
    /\ UNCHANGED <<rescan, show, flags, config, canvas, pending>>

on_histogram ==
    /\ show_histogram' = ~show_histogram
    /\ IF ~show_histogram
       THEN \E k \in Fails(Len(images)) :
            \E g \in {goto_image(images, skiplist, image_index, metadata, image_index, 1, k, TRUE)} :
               Navigate("on_histogram", g)
       ELSE Return("on_histogram") /\ UNCHANGED <<images, skiplist, image_index>>
    /\ UNCHANGED <<rescan, show, centre_image, update, info, filter, config, canvas, store, pending>>

(***************************************************************************)
(* Python floats are IEEE-754 doubles.  A double that is not negative is   *)
(* [m, e]: m is the 53-bit significand, most significant bit first, and e  *)
(* the exponent of its last bit, so that the value is m * 2^e; m[1] = 1    *)
(* but for zero.  Results are rounded to nearest, ties to even.            *)
(***************************************************************************)
Mantissa == 53

Zero == [m |-> [i \in 1..Mantissa |-> 0], e |-> 0]

\* the arithmetic below works on groups of LimbBits bits
LimbBits == 9
Limb == 2 ^ LimbBits

\* the w-bit binary of a whole number n < 2^w, most significant bit first
Bits(n, w) == [i \in 1..w |-> (n \div 2 ^ (w - i)) % 2]

\* bits without its leading zeros
Strip(bits) ==
    IF \A i \in 1..Len(bits) : bits[i] = 0 THEN <<>>
    ELSE SubSeq(bits,
                CHOOSE i \in 1..Len(bits) :
                    bits[i] = 1 /\ \A j \in 1..(i - 1) : bits[j] = 0,
                Len(bits))

\* the bits of a whole number, starting with 1
Binary(n) == Strip(Bits(n, 31))

\* the whole number a bit sequence stands for
RECURSIVE Value(_)
Value(bits) ==
    IF bits = <<>> THEN 0
    ELSE 2 * Value(SubSeq(bits, 1, Len(bits) - 1)) + bits[Len(bits)]

\* bits + 1
Inc(bits) ==
    IF \A i \in 1..Len(bits) : bits[i] = 1
    THEN <<1>> \o [i \in 1..Len(bits) |-> 0]
    ELSE LET z == CHOOSE i \in 1..Len(bits) :
                      bits[i] = 0 /\ \A j \in (i + 1)..Len(bits) : bits[j] = 1
         IN  [i \in 1..Len(bits) |-> IF i < z THEN bits[i] ELSE IF i = z THEN 1 ELSE 0]

\* the double nearest to bits * 2^e (+ a fraction of 2^e when sticky), for
\* bits that start with 1
Round(bits, sticky, e) ==
    LET L == Len(bits)
    IN  IF L <= Mantissa
        THEN [m |-> bits \o [i \in 1..(Mantissa - L) |-> 0], e |-> e - (Mantissa - L)]
        ELSE LET kept == SubSeq(bits, 1, Mantissa)
                 rest == sticky \/ \E i \in (Mantissa + 2)..L : bits[i] = 1
                 up == bits[Mantissa + 1] = 1 /\ (rest \/ kept[Mantissa] = 1)
                 m1 == IF up THEN Inc(kept) ELSE kept
                 e1 == e + (L - Mantissa)
             IN  IF Len(m1) > Mantissa
                 THEN [m |-> SubSeq(m1, 1, Mantissa), e |-> e1 + 1]
                 ELSE [m |-> m1, e |-> e1]

\* float(n) for a whole number n
FromInt(n) == IF n = 0 THEN Zero ELSE Round(Binary(n), FALSE, 0)

\* x is a whole number
Whole(x) ==
    \/ x = Zero
    \/ /\ x.e <= 0
       /\ -x.e < Mantissa
       /\ \A i \in (Mantissa + x.e + 1)..Mantissa : x.m[i] = 0

\* the whole number x is
ToInt(x) == IF x = Zero THEN 0 ELSE Value(SubSeq(x.m, 1, Mantissa + x.e))

\* x < y
Less(x, y) ==
    IF x = Zero THEN y # Zero
    ELSE IF y = Zero THEN FALSE
    ELSE \/ x.e < y.e
         \/ /\ x.e = y.e
            /\ \E i \in 1..Mantissa :
                  /\ x.m[i] < y.m[i]
                  /\ \A j \in 1..(i - 1) : x.m[j] = y.m[j]

\* long division: the next n groups of bits of r / c, for r < c, and the
\* remainder after them
RECURSIVE Fraction(_, _, _)
Fraction(r, c, n) ==
    IF n = 0 THEN [bits |-> <<>>, r |-> r]
    ELSE LET rest == Fraction((r * Limb) % c, c, n - 1)
         IN  [bits |-> Bits((r * Limb) \div c, LimbBits) \o rest.bits, r |-> rest.r]

\* the groups of the fraction that leave Mantissa + 1 significant bits
\* after the leading zeros of a quotient by c < 2^LimbBits
Groups == (Mantissa + 1) \div LimbBits + 2

\* a / c for whole numbers a >= 0 and 0 < c < 2^LimbBits
TrueDiv(a, c) ==
    IF a = 0 THEN Zero
    ELSE LET f == Fraction(a % c, c, Groups)
         IN  Round(Strip(Bits(a \div c, 31) \o f.bits), f.r # 0, -(Groups * LimbBits))

\* the number of groups of a significand, and the whole number its group j
\* stands for (group 1 has the leading bits)
Limbs == (Mantissa + LimbBits - 1) \div LimbBits
Group(m, j) ==
    Value(SubSeq(Bits(0, Limbs * LimbBits - Mantissa) \o m,
                 (j - 1) * LimbBits + 1, j * LimbBits))

\* the carry of m * k out of the groups after group j
RECURSIVE Carry(_, _, _)
Carry(m, j, k) ==
    IF j = Limbs THEN 0
    ELSE (Group(m, j + 1) * k + Carry(m, j + 1, k)) \div Limb

\* the bits of m * k from group j on
RECURSIVE Times(_, _, _)
Times(m, j, k) ==
    IF j > Limbs THEN <<>>
    ELSE Bits((Group(m, j) * k + Carry(m, j, k)) % Limb, LimbBits) \o Times(m, j + 1, k)

\* x * k for a double x and a whole number k
Mul(x, k) ==
    IF k = 0 \/ x = Zero THEN Zero
    ELSE Round(Strip(Bits(Carry(x.m, 0, k), 31) \o Times(x.m, 1, k)), FALSE, x.e)

(***************************************************************************)
(* draw_histogram: the clip ceiling and the heights of the polygon.        *)
(***************************************************************************)
NUMLEVELS == 256
MAXH == 256 \div 2
MinClip == 10
Quantiles == 25

Levels == 0..(NUMLEVELS - 1)

\* sorted(h)[k - 1]: the k-th smallest count of the histogram h
OrderStatistic(h, k) ==
    CHOOSE v \in {h[x] : x \in Levels} :
        /\ Cardinality({x \in Levels : h[x] < v}) < k
        /\ Cardinality({x \in Levels : h[x] <= v}) >= k

\* statistics.quantiles(h, n=25)[-1]
LastQuantile(h) ==
    LET n == Quantiles
        ld == NUMLEVELS
        i == n - 1
        j0 == (i * (ld + 1)) \div n
        j == IF j0 < 1 THEN 1 ELSE IF j0 > ld - 1 THEN ld - 1 ELSE j0
        delta == i * (ld + 1) - j * n
    IN  TrueDiv(OrderStatistic(h, j) * (n - delta) + OrderStatistic(h, j + 1) * delta, n)

\* max(10, q)
Clip(q) == IF Less(FromInt(MinClip), q) THEN q ELSE FromInt(MinClip)

\* MAXH / clip, for a clip that is a whole number
Scale(c) == TrueDiv(MAXH, ToInt(c))

\* the height of a bin drawn without clipping
Height_NoClip(c, count) == Mul(Scale(c), count)

\* scale*min(clip, count), for a clip that is a whole number
Height(c, count) ==
    Mul(Scale(c), ToInt(IF Less(FromInt(count), c) THEN FromInt(count) ELSE c))

\* the polygon of a histogram has been computed
Drawn == DOMAIN polygon = Levels

\* the histogram of an image is drawn
draw_exposure ==
    /\ DOMAIN histogram = Levels
    /\ ~Drawn
    /\ \E c \in {Clip(LastQuantile(histogram))} :
       \E hs \in {[v \in {histogram[x] : x \in Levels} |-> Height(c, v)]} :
          /\ clip' = c
          /\ polygon' = [x \in Levels |-> hs[histogram[x]]]
    /\ UNCHANGED <<viewer, show, flags, config, store, pending, locals, histogram>>

(***************************************************************************)
(* The state after Viewer.__init__ and tk.after(10, app.updater), for a    *)
(* metadata.csv with the given rows and the given command-line options.    *)
(***************************************************************************)
TicksPerImage == 40

Started(rows, f, sort, randomise, walk) ==
    /\ images = <<>>
    /\ image_index = None
    /\ skiplist = <<>>
    /\ rescan = FALSE
    /\ slideshow = FALSE
    /\ slideshow_ticks = TicksPerImage
    /\ slideshow_next = TicksPerImage
    /\ show_histogram = FALSE
    /\ centre_image = FALSE
    /\ sort_on_load = sort
    /\ randomise_on_load = randomise
    /\ update = TRUE
    /\ info = FALSE
    /\ metadata_db = rows
    /\ metadata = load_metadata(rows)
    /\ filter = f
    /\ treewalk = walk
    /\ pending = 1
    /\ fault = NoFault
    /\ last_op = "init"
    /\ failed = 0
    /\ paths = <<>>
    /\ isfile = {}
    /\ new_images = <<>>
    /\ listed = <<>>
    /\ rescanned = FALSE
    /\ unskipped = {}

\* the viewer before any histogram is drawn
Constructed(rows, f, sort, randomise, walk) ==
    /\ Started(rows, f, sort, randomise, walk)
    /\ histogram = <<>>
    /\ clip = Zero
    /\ polygon = <<>>

\* metadata.csv files with a rating and no notes for some of the names
RatedTables == UNION {{{<<nm, t[nm], "">> : nm \in S} : t \in [S -> Digits]} : S \in SUBSET Names}

(***************************************************************************)
(* Spec: scanning, navigation, decode failures, rescans and clearing the   *)
(* skiplist, with and without --sort, without ratings or a filter.         *)
(***************************************************************************)
Init ==
    \E sort \in BOOLEAN : Constructed({}, None, sort, FALSE, FALSE)

Next ==
    \/ tick
    \/ on_home
    \/ on_end
    \/ on_left
    \/ on_right
    \/ on_clearskip
    \/ set_rescan

Spec == Init /\ [][Next]_vars

(***************************************************************************)
(* SpecNotes: navigation with rating and annotating the shown image.       *)
(***************************************************************************)
InitNotes == Constructed({}, None, FALSE, FALSE, FALSE)

NextNotes ==
    \/ tick
    \/ on_home
    \/ on_end
    \/ on_left
    \/ on_right
    \/ on_rating
    \/ on_text

SpecNotes == InitNotes /\ [][NextNotes]_vars

(***************************************************************************)
(* SpecFilter: navigation under a rating filter, over the ratings a        *)
(* metadata.csv can hold at start-up.                                      *)
(***************************************************************************)
InitFilter ==
    \E rows \in RatedTables, f \in Digits \cup {None} :
        Constructed(rows, f, FALSE, FALSE, FALSE)

NextFilter ==
    \/ tick
    \/ on_home
    \/ on_end
    \/ on_left
    \/ on_right
    \/ on_filter

SpecFilter == InitFilter /\ [][NextFilter]_vars

(***************************************************************************)
(* SpecShow: the slideshow keys and the timer.                             *)
(***************************************************************************)
InitShow == Constructed({}, None, FALSE, FALSE, FALSE)

NextShow ==
    \/ tick
    \/ on_space
    \/ on_plus
    \/ on_minus

SpecShow == InitShow /\ [][NextShow]_vars

(***************************************************************************)
(* SpecRate: rating the shown image, over a metadata.csv that holds notes  *)
(* for the first name and nothing for the others.                          *)
(***************************************************************************)
NotedTable == {<<1, 0, "n">>}

InitRate == Constructed(NotedTable, None, FALSE, FALSE, FALSE)

NextRate ==
    \/ tick
    \/ on_right
    \/ on_rating

SpecRate == InitRate /\ [][NextRate]_vars

(***************************************************************************)
(* SpecOverlay: the exposure overlay under a rating filter, over a         *)
(* metadata.csv that is absent or rates the first name.                    *)
(***************************************************************************)
InitOverlay ==
    \E rows \in {{}, {<<1, MaxDigit, "">>}}, f \in {None, MaxDigit} :
        Constructed(rows, f, FALSE, FALSE, FALSE)

NextOverlay ==
    \/ tick
    \/ on_right
    \/ on_histogram

SpecOverlay == InitOverlay /\ [][NextOverlay]_vars

(***************************************************************************)
(* SpecSave: rating and annotating with and without the overlay.           *)
(***************************************************************************)
InitSave == Constructed({}, None, FALSE, FALSE, FALSE)

NextSave ==
    \/ tick
    \/ on_histogram
    \/ on_rating
    \/ on_text

SpecSave == InitSave /\ [][NextSave]_vars

(***************************************************************************)
(* SpecWalk: scanning with and without --treewalk.                         *)
(***************************************************************************)
InitWalk ==
    \E walk \in BOOLEAN : Constructed({}, None, FALSE, FALSE, walk)

NextWalk ==
    \/ tick
    \/ on_right
    \/ on_clearskip

SpecWalk == InitWalk /\ [][NextWalk]_vars

(***************************************************************************)
(* SpecSearch: navigation under a rating filter, over a metadata.csv that  *)
(* rates the first and third names at the top digit and the second '0'.    *)
(***************************************************************************)
SearchTable == {<<1, MaxDigit, "">>, <<2, 0, "">>, <<3, MaxDigit, "">>}

InitSearch ==
    \E f \in Digits \ {0} : Constructed(SearchTable, f, FALSE, FALSE, FALSE)

NextSearch ==
    \/ tick
    \/ on_home
    \/ on_end
    \/ on_left
    \/ on_right

SpecSearch == InitSearch /\ [][NextSearch]_vars

(***************************************************************************)
(* SpecTimer: the timer and the keys that call updater themselves.         *)
(***************************************************************************)
InitTimer == Constructed({}, None, FALSE, FALSE, FALSE)

NextTimer ==
    \/ tick
    \/ on_update
    \/ on_info

SpecTimer == InitTimer /\ [][NextTimer]_vars

(***************************************************************************)
(* SpecHistogram: draw_histogram applied to the histograms that have one   *)
(* count in their first bins and another in the rest, and whose last       *)
(* quantile is a whole number.                                             *)
(***************************************************************************)
HighBins == {9, 10, 11}

Histograms ==
    {h \in {[x \in Levels |-> IF x < n THEN hi ELSE lo] :
               lo \in 0..MaxLow, hi \in 0..MaxCount, n \in HighBins} :
        Whole(LastQuantile(h))}

InitHistogram ==
    /\ Started({}, None, FALSE, FALSE, FALSE)
    /\ histogram \in Histograms
    /\ clip = Zero
    /\ polygon = <<>>

NextHistogram == draw_exposure

SpecHistogram == InitHistogram /\ [][NextHistogram]_vars


(***************************************************************************)
(* The claims.                                                             *)
(***************************************************************************)
Empty == images = <<>> /\ image_index = None
NavKeys == {"on_home", "on_end", "on_left", "on_right"}
\* the last handler loaded an image and met no undecodable entry
LoadedCleanly == failed = 0 /\ fault = NoFault
\* the entry the index designates, for an index inside the list
Shown == images[image_index + 1]
InRange == image_index # None /\ image_index >= 0 /\ image_index < Len(images)

\* C1: with the ImageSet empty, first, last, next, previous, rate and
\* annotate raise no fault and change neither the state Empty, nor the
\* ImageSet, the SkipList or the MetadataStore.
C1_EmptyEntryPointsAreNoOps ==
    [][(Empty /\ last_op' \in NavKeys \cup {"on_rating", "on_text"})
        => (fault' = NoFault /\ Empty' /\ UNCHANGED <<images, skiplist, metadata>>)]_vars

\* C2: a handler that met undecodable entries ends without a fault, and if
\* the removals emptied the ImageSet the index is none.
C2_DecodeFailuresNeverFault ==
    failed > 0 => (fault = NoFault /\ (images = <<>> => image_index = None))

\* C3: the ImageSet holds no path twice and no path is both in the ImageSet
\* and in the SkipList.
C3_NoDuplicateNoSkipped ==
    /\ NoDup(images)
    /\ Range(images) \cap Range(skiplist) = {}

\* C3 witness: after a rescan and a clear of the skiplist, a tick has found
\* new images and met an undecodable one while older entries are kept.
C3_Witness ==
    /\ last_op = "updater"
    /\ failed > 0
    /\ Len(images) >= 2
    /\ skiplist # <<>>
    /\ Range(new_images) \cap Range(skiplist) # {}

\* C4: a tick that finds the folder empty while the ImageSet is empty leaves
\* the state Empty and raises no fault, whatever the slideshow state is.
C4_TickOnEmptyFolder ==
    [][(Empty /\ last_op' = "updater" /\ paths' = <<>>)
        => (fault' = NoFault /\ Empty')]_vars

\* C5: the batch a tick merges is exactly the scanned candidates that are
\* not in the ImageSet, not in the SkipList and still files at merge time;
\* nothing else enters the ImageSet or the SkipList on that tick.
C5_BatchIsFreshExistingCandidates ==
    [][(last_op' = "updater" /\ update)
        => LET known == IF rescan THEN {} ELSE Range(images)
               batch == {p \in Range(paths') :
                           p \notin known /\ p \notin Range(skiplist) /\ p \in isfile'}
           IN  /\ Range(new_images') = batch
               /\ Range(images') \cup Range(skiplist') = known \cup Range(skiplist) \cup batch]_vars

\* C5 witness: a tick merged a batch while another scanned candidate, neither
\* known nor skipped, had been deleted before the merge and was left out.
C5_Witness ==
    /\ last_op = "updater"
    /\ new_images # <<>>
    /\ \E p \in Range(paths) :
          p \notin isfile /\ p \notin Range(images) /\ p \notin Range(skiplist)

\* C6: without a filter and with the target decodable, a navigation on n > 0
\* images leaves the index at the target modulo n: 0 for first, n-1 for
\* last, index+1 mod n for next, index-1 mod n for previous.
C6_GotoWraps ==
    [][(filter = None /\ Len(images) > 0 /\ image_index # None /\ LoadedCleanly')
        => LET n == Len(images)
           IN  /\ last_op' = "on_home" => image_index' = 0
               /\ last_op' = "on_end" => image_index' = n - 1
               /\ last_op' = "on_right" => image_index' = (image_index + 1) % n
               /\ last_op' = "on_left" => image_index' = (image_index - 1) % n]_vars

\* C6 witness: previous has wrapped from the first entry of at least three
\* images to the last one.
C6_Witness ==
    /\ last_op = "on_left"
    /\ filter = None
    /\ LoadedCleanly
    /\ Len(images) >= 3
    /\ image_index = Len(images) - 1

\* C7: with a filter active and an entry rated at least the filter in the
\* ImageSet, the entry shown after a first, last, next or previous that
\* returned normally is rated at least the filter.
C7_NavigationRespectsFilter ==
    (/\ last_op \in NavKeys
     /\ fault = NoFault
     /\ filter # None
     /\ \E i \in 1..Len(images) : Rating(metadata, Basename(images[i])) >= filter)
    => (InRange /\ Rating(metadata, Basename(Shown)) >= filter)

\* C8: after a tick that found new images, none of them undecodable, the
\* index designates an entry of the new batch, the slideshow is off and the
\* countdown is the full interval, with and without --sort.
C8_TickShowsNewBatch ==
    (last_op = "updater" /\ new_images # <<>> /\ LoadedCleanly)
    => /\ InRange
       /\ Shown \in Range(new_images)
       /\ ~slideshow
       /\ slideshow_next = slideshow_ticks

\* C9: without --randomise and without --sort the new batch is appended in
\* the order of the directory listing.
C9_BatchKeepsListingOrder ==
    (/\ last_op = "updater"
     /\ new_images # <<>>
     /\ ~randomise_on_load
     /\ ~sort_on_load
     /\ LoadedCleanly)
    => SubSeq(images, Len(images) - Len(new_images) + 1, Len(images)) = new_images

\* C10: with --sort the whole ImageSet is in ascending path order after a
\* tick that appended a batch and after every later decode-failure removal.
C10_SortedWhenSortConfigured ==
    sort_on_load => Sorted(images)

\* C10 witness: with --sort a tick appended a batch holding a path that
\* sorts before an older entry, and an undecodable entry was removed.
C10_Witness ==
    /\ sort_on_load
    /\ last_op = "updater"
    /\ failed > 0
    /\ \E p \in Range(images), q \in Range(images) :
          p \notin Range(new_images) /\ q \in Range(new_images) /\ q < p

\* a sequence that starts with the sequence s
StartsWith(t, s) == Len(t) >= Len(s) /\ SubSeq(t, 1, Len(s)) = s

\* C11: a tick that sees the rescan flag set clears the flag and rebuilds the
\* ImageSet from the scan alone (Empty when the scan brings nothing); the
\* SkipList keeps its entries, none of which is re-added to the ImageSet, and
\* gains only the entries found undecodable on that tick.  In every step
\* but the clear-skiplist event the SkipList keeps all its entries.
C11_RescanKeepsSkipList ==
    [][/\ (rescan /\ update /\ last_op' = "updater")
           => /\ ~rescan'
              /\ Range(images') \subseteq Range(new_images')
              /\ Range(images') \cap Range(skiplist) = {}
              /\ (new_images' = <<>> => Empty')
              /\ StartsWith(skiplist', skiplist)
              /\ (failed' = 0 => skiplist' = skiplist)
       /\ (last_op' # "on_clearskip" => StartsWith(skiplist', skiplist))]_vars

\* C11 witness: a tick rebuilt a non-empty ImageSet after a rescan while a
\* path of the SkipList was in the scan again and stayed out.
C11_Witness ==
    /\ rescanned
    /\ last_op = "updater"
    /\ failed = 0
    /\ images # <<>>
    /\ \E p \in Range(skiplist) : p \in Range(paths) /\ p \notin Range(images)

\* C12: on a tick that finds no new images, an active slideshow with
\* countdown c > 1 only lowers the countdown by one; with countdown 1 the
\* tick resets the countdown to the interval and performs next once (on a
\* decodable target without a filter the index becomes index+1 mod n); an
\* inactive slideshow leaves countdown and index as they are.  Hence next
\* falls on the c-th tick and then on every k-th tick.
C12_SlideshowCountdown ==
    [][(last_op' = "updater" /\ update /\ new_images' = <<>>)
        => /\ (slideshow /\ slideshow_next > 1)
                => /\ slideshow_next' = slideshow_next - 1
                   /\ UNCHANGED <<image_index, images, skiplist, slideshow>>
                   /\ fault' = NoFault
           /\ (slideshow /\ slideshow_next = 1)
                => /\ slideshow_next' = slideshow_ticks
                   /\ slideshow'
                   /\ (InRange /\ filter = None /\ LoadedCleanly')
                        => /\ image_index' = (image_index + 1) % Len(images)
                           /\ images' = images
           /\ ~slideshow
                => /\ UNCHANGED <<slideshow_next, image_index, images, skiplist, slideshow>>
                   /\ fault' = NoFault]_vars

\* C12 witness: the slideshow's countdown expired on a tick without new
\* images and next moved to the second of at least three decodable entries.
C12_Witness ==
    /\ last_op = "updater"
    /\ slideshow
    /\ new_images = <<>>
    /\ slideshow_next = slideshow_ticks
    /\ slideshow_ticks > 1
    /\ LoadedCleanly
    /\ Len(images) >= 3
    /\ image_index = 1

\* C13: speed_up sets the interval k to floor(k/2) for k >= 2 and leaves it
\* at 1 otherwise, slow_down sets it to 2k, and the interval is at least 1
\* in every state; the tick after a speed_up with the slideshow active, if
\* it finds no new images, resets the countdown and performs next.
C13_IntervalAndSpeedUp ==
    [][/\ last_op' = "on_plus"
           => /\ slideshow_ticks' = (IF slideshow_ticks >= 2 THEN slideshow_ticks \div 2 ELSE 1)
              /\ UNCHANGED <<slideshow, images, image_index>>
       /\ last_op' = "on_minus" => slideshow_ticks' = 2 * slideshow_ticks
       /\ slideshow_ticks >= 1 /\ slideshow_ticks' >= 1
       /\ (last_op = "on_plus" /\ slideshow /\ last_op' = "updater" /\ update /\ new_images' = <<>>)
           => /\ slideshow_next' = slideshow_ticks
              /\ (InRange /\ filter = None /\ LoadedCleanly')
                   => image_index' = (image_index + 1) % Len(images)]_vars

\* C13 witness: speed_up was pressed at interval 1 with the slideshow
\* active on a non-empty ImageSet; the next tick is due to perform next.
C13_Witness ==
    /\ last_op = "on_plus"
    /\ slideshow
    /\ slideshow_ticks = 1
    /\ slideshow_next = 1
    /\ InRange

\* C17: toggle_slideshow negates the slideshow flag and leaves the index,
\* the ImageSet, the SkipList, the filter, the interval and the countdown as
\* they are, so a second toggle restores the state before the first.
C17_ToggleSlideshowFrame ==
    [][last_op' = "on_space"
        => /\ slideshow' = ~slideshow
           /\ UNCHANGED <<image_index, images, skiplist, filter,
                          slideshow_ticks, slideshow_next>>
           /\ UNCHANGED <<rescan, flags, config, canvas, store, pending>>]_vars

\* C17 witness: the slideshow was toggled off in the middle of a countdown,
\* which keeps its value.
C17_Witness ==
    /\ last_op = "on_space"
    /\ ~slideshow
    /\ slideshow_next > 1
    /\ slideshow_next < slideshow_ticks
    /\ InRange

\* C15: a rate(digit) while an entry is shown leaves the record keyed by the
\* shown entry's basename with rating = digit, and with notes '' if the
\* call created the record and the notes it had otherwise; every other
\* record of the store is as before and no other record appears.
C15_RateChangesOneRecord ==
    [][\A d \in Digits :
        (InRange /\ last_op' = "on_rating" /\ on_rating_char(d))
        => LET nm == Basename(Shown)
           IN  /\ DOMAIN metadata' = DOMAIN metadata \cup {nm}
               /\ metadata'[nm].rating = d
               /\ metadata'[nm].notes = (IF nm \in DOMAIN metadata
                                         THEN metadata[nm].notes ELSE "")
               /\ \A other \in DOMAIN metadata \ {nm} :
                      metadata'[other] = metadata[other]]_vars

\* C15 witness: the store holds a record with notes and a rating other than
\* '0' and a record with empty notes, after a rate.
C15_Witness ==
    /\ last_op = "on_rating"
    /\ fault = NoFault
    /\ \E a, b \in DOMAIN metadata :
          /\ a # b
          /\ metadata[a].notes # "" /\ metadata[a].rating # 0
          /\ metadata[b].notes = ""

\* C16: an annotate(text) while an entry is shown, for every text the dialog
\* is answered with, the empty text included, leaves the record keyed by the
\* shown entry's basename with notes = text, and with rating '0' if the call
\* created the record and the rating it had otherwise.
C16_AnnotateOverwritesNotes ==
    [][\A text \in Notes :
        (InRange /\ last_op' = "on_text" /\ on_text_reply(TRUE, text))
        => LET nm == Basename(Shown)
           IN  /\ nm \in DOMAIN metadata'
               /\ metadata'[nm].notes = text
               /\ metadata'[nm].rating = (IF nm \in DOMAIN metadata
                                          THEN metadata[nm].rating ELSE 0)]_vars

\* C14: after every rate or annotate that returned normally, loading the
\* rows of metadata.csv yields exactly the in-memory store.
C14_SavedTableIsTheStore ==
    (last_op \in {"on_rating", "on_text"} /\ fault = NoFault)
    => load_metadata(metadata_db) = metadata

\* C18: toggle_overlay negates the overlay flag, and when its redraw meets no
\* undecodable entry and no fault, the index, the ImageSet and the
\* MetadataStore are as before, whatever the filter and the ratings are.
C18_OverlayKeepsEntry ==
    [][last_op' = "on_histogram"
        => /\ show_histogram' = ~show_histogram
           /\ LoadedCleanly' => UNCHANGED <<image_index, images, metadata>>]_vars

\* C20: no handler ends with the decode error of a user comment: the
\* extractor contains it and the render with the overlay completes.
C20_TagErrorsContained ==
    fault # "UnicodeDecodeError"

\* C19: the candidates of a scan are exactly the listed image files (every
\* file of the model has the extension jpg in lower or upper case): those of
\* the hot folder without --treewalk, those of the whole tree with it, so
\* that both modes select the same files of the hot folder.
C19_ScanIgnoresCase ==
    (last_op = "updater" /\ update)
    => /\ Range(paths) = {p \in Range(listed) : treewalk \/ InRoot(p)}
       /\ {p \in Range(paths) : InRoot(p)} = Range(Scan(FALSE, listed))

\* the entry at the 0-based position i is rated at least the filter
Qualifies(i) == Rating(metadata, Basename(images[i + 1])) >= filter

C23_SkipListUntilCleared ==
    [][/\ (last_op' = "updater" /\ update)
          => Range(new_images') \cap Range(skiplist) = {}
       /\ last_op' = "on_clearskip"
          => /\ skiplist' = <<>>
             /\ images' = images
             /\ image_index' = image_index
       /\ (last_op = "on_clearskip" /\ last_op' = "updater" /\ update)
          => \A p \in unskipped :
                (p \in Range(paths') /\ p \in isfile' /\ p \notin Range(images))
                => /\ p \in Range(new_images')
                   /\ p \in Range(images') \cup Range(skiplist')]_vars

\* C23 witness: a clearing has released two skipped paths while an image
\* is shown.
C23_Witness ==
    /\ last_op = "on_clearskip"
    /\ Cardinality(unskipped) >= 2
    /\ skiplist = <<>>
    /\ InRange

\* C24: in every reachable state the index is none exactly when there are
\* no images, and otherwise designates an entry: 0 <= index < number of
\* images.
C24_IndexDesignatesEntry ==
    /\ image_index = None <=> images = <<>>
    /\ images # <<>> => InRange

\* C25: at most one call of updater is queued with the timer in any state
\* reachable by timer firings and the update and info keys.
C25_OneTickPending ==
    pending <= 1

\* C26: between handlers the slideshow countdown is at least 1 and at most
\* the tick interval.
C26_CountdownWithinInterval ==
    /\ 1 <= slideshow_next
    /\ slideshow_next <= slideshow_ticks

\* C26 witness: with the slideshow running and the countdown part of the
\* way down a shortened interval, slow_down has doubled the interval.
C26_Witness ==
    /\ last_op = "on_minus"
    /\ slideshow
    /\ slideshow_next > 1
    /\ slideshow_next * 2 < slideshow_ticks
    /\ slideshow_ticks < TicksPerImage

\* bits - 1, for bits that are not all 0
Dec(bits) ==
    LET z == CHOOSE i \in 1..Len(bits) :
                 bits[i] = 1 /\ \A j \in (i + 1)..Len(bits) : bits[j] = 0
    IN  [i \in 1..Len(bits) |-> IF i < z THEN bits[i] ELSE IF i = z THEN 0 ELSE 1]

\* the largest double below a positive double x
Before(x) ==
    IF \A i \in 2..Mantissa : x.m[i] = 0
    THEN [m |-> [i \in 1..Mantissa |-> 1], e |-> x.e - 1]
    ELSE [m |-> Dec(x.m), e |-> x.e]

\* the clip ceiling is at least 10 and the height of the bin at level x is
\* at least 0 and at most MAXH
Bounded(x) ==
    /\ ~Less(clip, FromInt(MinClip))
    /\ ~Less(polygon[x], Zero)
    /\ ~Less(FromInt(MAXH), polygon[x])

\* the count of the bin at level x is at least the clip ceiling
Clipped(x) == ~Less(FromInt(histogram[x]), clip)

\* C21: in a drawn histogram the clip ceiling is at least 10, every height
\* is at least 0 and at most MAXH, and a bin whose count is at least the
\* clip ceiling has the height MAXH exactly.
C21_BarHeights ==
    Drawn
    => \A x \in Levels :
          /\ Bounded(x)
          /\ Clipped(x) => polygon[x] = FromInt(MAXH)

\* C21, amended: in a drawn histogram the clip ceiling is at least 10,
\* every height is at least 0 and at most MAXH, and a bin whose count is
\* at least the clip ceiling has the height MAXH or the largest float
\* below MAXH.
C21_BarHeightsToTheLastPlace ==
    Drawn
    => \A x \in Levels :
          /\ Bounded(x)
          /\ Clipped(x) => polygon[x] \in {FromInt(MAXH), Before(FromInt(MAXH))}

\* C21 witness: a histogram is drawn with a clip ceiling above 10, its
\* clipped bins just below MAXH and its other bins between 0 and MAXH.
C21_Witness ==
    /\ Drawn
    /\ Less(FromInt(MinClip), clip)
    /\ \E x \in Levels : Clipped(x) /\ polygon[x] = Before(FromInt(MAXH))
    /\ \E x \in Levels :
          /\ ~Clipped(x)
          /\ Less(Zero, polygon[x])
          /\ Less(polygon[x], FromInt(MAXH))

====
